---------------------------- MODULE Spec2Model ----------------------------
(***************************************************************************)
(* Model of the fibers accelerator of alpaka                               *)
(* (src/include/alpaka/AccFibers.hpp): IndexFibers, AtomicFibers,          *)
(* FiberBarrier, AccFibers and AccFibers::KernelExecutor.                  *)
(*                                                                         *)
(* All fibers of a block and the thread that called the executor are      *)
(* multiplexed onto one thread.  A task runs until it reaches a            *)
(* suspension point (fiber creation, condition_variable::wait, join, end   *)
(* of the fiber function); only then another ready task is picked, and     *)
(* which one is left open.  The variable `running` holds the task that     *)
(* owns the thread, so the steps of one task between two suspension        *)
(* points are never interleaved with steps of another.                     *)
(***************************************************************************)
EXTENDS Integers, Sequences, FiniteSets, TLC

(***************************************************************************)
(* Bounds of the model.                                                    *)
(***************************************************************************)
\* Largest linearized block size whose fibers are explored.
MaxLanes == 3
\* Largest number of blocks in the grid.
MaxBlocks == 2
\* Largest linearized block size, and largest number of blocks, where only
\* the order of the loops is explored (extents with two sides above 1).
MaxFibers == MaxLanes + 1
MaxVisits == MaxBlocks + 2

(***************************************************************************)
(* Program constants.                                                      *)
(***************************************************************************)
\* AccFibers::getSizeBlockKernelsLinearMax(): "return 1024; // Magic number."
getSizeBlockKernelsLinearMax == 1024

\* A default-constructed boost::fibers::fiber::id (not-a-fiber), the value
\* m_idMasterFiber is constructed with.
NoId == 0

\* Largest value of the std::size_t counter of FiberBarrier.  The checker's
\* integers are 32 bits wide, so the counter is taken 31 bits wide; only
\* "== 0" is ever evaluated on it.
SizeMax == 2147483647

(***************************************************************************)
(* vec<3u> helpers.  A vec<3u> v is the tuple <<v[0], v[1], v[2]>>, i.e.   *)
(* the C++ component i is component i+1 here.                              *)
(***************************************************************************)
Zero3 == <<0, 0, 0>>

\* getSize<..., Linear>() of the work size: the product of the extents.
Linear(ext) == ext[1] * ext[2] * ext[3]

\* The three nested for loops "for(z) for(y) for(x)" over an extent:
\* is there an iteration after the one with loop counters c ...
HasNext(c, ext) ==
    \/ c[1] + 1 < ext[1]
    \/ c[2] + 1 < ext[2]
    \/ c[3] + 1 < ext[3]

\* Mutant of NextIdx: the y loop is the innermost.
NextIdx_YFastest(c, ext) ==
    IF c[2] + 1 < ext[2] THEN <<c[1], c[2] + 1, c[3]>>
    ELSE IF c[1] + 1 < ext[1] THEN <<c[1] + 1, 0, c[3]>>
    ELSE <<0, 0, c[3] + 1>>

\* ... and the loop counters of that next iteration (x innermost).
NextIdx(c, ext) ==
    IF c[1] + 1 < ext[1] THEN <<c[1] + 1, c[2], c[3]>>
    ELSE IF c[2] + 1 < ext[2] THEN <<0, c[2] + 1, c[3]>>
    ELSE <<0, 0, c[3] + 1>>

\* All extents (every component >= 1) with at most n elements.
Extents(n) ==
    {e \in (1..n) \X (1..n) \X (1..n) : Linear(e) <= n}

\* All coordinates inside an extent.
Coords(ext) ==
    (0..(ext[1] - 1)) \X (0..(ext[2] - 1)) \X (0..(ext[3] - 1))

\* Row-major linearization of a coordinate (x fastest).
Flatten(c, ext) == c[1] + ext[1] * (c[2] + ext[2] * c[3])

(***************************************************************************)
(* Inputs of KernelExecutor::operator().                                   *)
(***************************************************************************)
\* Block extents: the small ones, whose fibers are explored, and two around
\* the ceiling, for which only the validation is explored.
BlockExtents ==
    Extents(MaxLanes)
        \cup {<<getSizeBlockKernelsLinearMax, 1, 1>>,
              <<getSizeBlockKernelsLinearMax + 1, 1, 1>>}

GridExtents == Extents(MaxBlocks)

(***************************************************************************)
(* Kernels.  A kernel is the sequence of calls its operator() makes on     *)
(* the accelerator, the same for every fiber:                              *)
(*   "idx"    out[flat(block, lane)] := block * 10 + lane, from getIdx     *)
(*   "atomic" atomicOp<Add>(&counter, 1)                                   *)
(*   "sync"   syncBlockKernels()                                           *)
(*   "sync0"  syncBlockKernels(), called by the fiber (0,0,0) only         *)
(*   "alloc"  allocBlockSharedMem<T, allocCount>()                         *)
(*   "write"  the fiber (0,0,0) stores val at [0] of its last allocation   *)
(*   "read"   every other fiber loads [0] of its last allocation           *)
(*   "throw"  the kernel throws an exception, or goes on                    *)
(* externBytes is what BlockSharedExternMemSizeBytes<Kernel> returns per   *)
(* kernel of the block.                                                    *)
(***************************************************************************)
KRecord ==
    [name |-> "record", prog |-> <<"idx">>,
     externBytes |-> 4, allocCount |-> 1, elemSize |-> 1, val |-> 0]
KAtomic ==
    [name |-> "atomic", prog |-> <<"atomic">>,
     externBytes |-> 0, allocCount |-> 1, elemSize |-> 1, val |-> 0]
KSync2 ==
    [name |-> "sync2", prog |-> <<"sync", "sync">>,
     externBytes |-> 0, allocCount |-> 1, elemSize |-> 1, val |-> 0]
KAlloc ==
    [name |-> "alloc", prog |-> <<"alloc", "alloc", "write", "sync", "read">>,
     externBytes |-> 0, allocCount |-> 2, elemSize |-> 4, val |-> 7]
KUneven ==
    [name |-> "uneven", prog |-> <<"sync0">>,
     externBytes |-> 0, allocCount |-> 1, elemSize |-> 1, val |-> 0]
KThrow ==
    [name |-> "throw", prog |-> <<"throw">>,
     externBytes |-> 0, allocCount |-> 1, elemSize |-> 1, val |-> 0]

Kernels == {KRecord, KAtomic, KSync2, KAlloc, KUneven, KThrow}

\* A kernel with one syncBlockKernels call: with the two calls of
\* fiberKernel every fiber of a block makes an odd number of calls.
KSync1 ==
    [name |-> "syncOnce", prog |-> <<"sync">>,
     externBytes |-> 0, allocCount |-> 1, elemSize |-> 1, val |-> 0]

\* BlockSharedExternMemSizeBytes<TAcceleratedKernel>::
\* getBlockSharedExternMemSizeBytes(v3uiSizeBlockKernels)
getBlockSharedExternMemSizeBytes(k, ext) == k.externBytes * Linear(ext)

(***************************************************************************)
(* State.                                                                  *)
(***************************************************************************)
VARIABLES
    workSize,               \* TInterfacedWorkSize base: [grid, block]
    kernel,                 \* the TAcceleratedKernel of the executor
    m_mFibersToIndices,     \* fiber id -> vec<3u>
    m_v3uiGridBlockIdx,     \* vec<3u>
    m_uiNumKernelsPerBlock, \* std::size_t
    m_mFibersToBarrier,     \* fiber id -> std::size_t
    m_abarSyncFibers,       \* [0..1 -> m_uiNumFibersToWaitFor]
    m_idMasterFiber,        \* fiber id
    m_vvuiSharedMem,        \* sequence of byte sequences
    m_vuiExternalSharedMem, \* byte sequence
    m_vFibersInBlock,       \* sequence of fibers (see NewFiber)
    execPc,                 \* position of operator(): idle, spawn, join,
                            \* done, failed (threw), asserted, crashed,
                            \* terminate (std::terminate was called)
    tIdx,                   \* loop counters <<tx, ty, tz>> of the next fiber
    v3uiBlockKernelIdx,     \* the local vec<3u> of the spawn loop
    joinIdx,                \* position of the join for_each
    running,                \* the task that owns the thread
    counter,                \* the T the "atomic" kernel adds to
    out,                    \* the array the "idx" kernel writes
    stray,                  \* what an out-of-bounds store left behind
    bodyRuns,               \* history: <<block, slot>> -> #calls of operator()
    seenIdx,                \* history: <<block, slot>> -> getIdxBlockKernel()
    atomicRet,              \* history: the atomicOp results, in call order
    loaded,                 \* history: the values the fibers of the block loaded
    raised                  \* history: a kernel has thrown

vars ==
    <<workSize, kernel, m_mFibersToIndices, m_v3uiGridBlockIdx,
      m_uiNumKernelsPerBlock, m_mFibersToBarrier, m_abarSyncFibers,
      m_idMasterFiber, m_vvuiSharedMem, m_vuiExternalSharedMem,
      m_vFibersInBlock, execPc, tIdx, v3uiBlockKernelIdx, joinIdx, running,
      counter, out, stray, bodyRuns, seenIdx, atomicRet, loaded, raised>>

accVars ==
    <<m_mFibersToIndices, m_v3uiGridBlockIdx, m_uiNumKernelsPerBlock,
      m_mFibersToBarrier, m_abarSyncFibers, m_idMasterFiber, m_vvuiSharedMem,
      m_vuiExternalSharedMem>>

histVars ==
    <<counter, out, stray, bodyRuns, seenIdx, atomicRet, loaded, raised>>

(***************************************************************************)
(* Tasks and scheduling.                                                   *)
(***************************************************************************)
NoTask == <<"none", 0>>
MainTask == <<"main", 0>>
FiberTask(s) == <<"fiber", s>>

Slots == 1..Len(m_vFibersInBlock)

\* A fiber can be resumed unless it sits in condition_variable::wait
\* without having been notified, or its function has returned.
Ready(s) ==
    /\ m_vFibersInBlock[s].pc # "terminated"
    /\ m_vFibersInBlock[s].syn # "wait"

\* Task t executes: it owns the thread, or the thread is free.
CanRun(t) == running = t \/ running = NoTask

Alive(s) == m_vFibersInBlock[s].pc # "terminated"

(***************************************************************************)
(* std::map helpers.                                                       *)
(***************************************************************************)
EmptyMap == << >>

\* std::map::insert / emplace: no effect when the key is present.
MapInsert(m, k, v) == IF k \in DOMAIN m THEN m ELSE m @@ (k :> v)

\* History maps are overwritten.
Put(m, k, v) == (k :> v) @@ m

(***************************************************************************)
(* Fiber ids.  An id identifies a fiber among the fibers that have not     *)
(* finished; an id of a finished fiber can be handed out again.  Ids are   *)
(* opaque, so among the free ids that nothing refers to only the smallest  *)
(* is tried; an id that is free but still stored in the accelerator (a     *)
(* stale m_idMasterFiber, a stale map key) is tried as well.               *)
(***************************************************************************)
Ids == 1..(MaxFibers + 1)

UsedIds == {m_vFibersInBlock[s].id : s \in {x \in Slots : Alive(x)}}

ReferencedIds ==
    {m_idMasterFiber} \cup DOMAIN m_mFibersToIndices
        \cup DOMAIN m_mFibersToBarrier
        \cup {m_vFibersInBlock[s].id : s \in Slots}

FreeIds == Ids \ UsedIds

NewIds ==
    LET fresh == FreeIds \ ReferencedIds
    IN  (FreeIds \cap ReferencedIds)
            \cup (IF fresh = {} THEN {}
                  ELSE {CHOOSE i \in fresh : \A j \in fresh : i <= j})

\* The state of a fiber just created: its id, the arguments bound to it
\* (arg: the copy of v3uiBlockKernelIdx), its position in fiberKernel (pc),
\* in the kernel (ip), in allocBlockSharedMem (ap) and in
\* FiberBarrier::wait (syn, bar), and its history: the block and the loop
\* counters it was created under, the syncBlockKernels calls it issued and
\* returned from and the indices of the buffers its allocations returned.
NewFiber(id, idx, blk) ==
    [id |-> id, arg |-> idx, pc |-> "start", ip |-> 1, ap |-> 0,
     syn |-> "no", bar |-> 0,
     blk |-> blk, made |-> idx, issued |-> 0, returned |-> 0,
     rets |-> << >>]

(***************************************************************************)
(* Initial state: the executor after construction.                         *)
(***************************************************************************)
Init ==
    /\ workSize = [grid |-> Zero3, block |-> Zero3]
    /\ kernel = KRecord
    /\ m_mFibersToIndices = EmptyMap
    /\ m_v3uiGridBlockIdx = Zero3
    /\ m_uiNumKernelsPerBlock = 0
    /\ m_mFibersToBarrier = EmptyMap
    /\ m_abarSyncFibers = [i \in 0..1 |-> 0]
    /\ m_idMasterFiber = NoId
    /\ m_vvuiSharedMem = << >>
    /\ m_vuiExternalSharedMem = << >>
    /\ m_vFibersInBlock = << >>
    /\ execPc = "idle"
    /\ tIdx = Zero3
    /\ v3uiBlockKernelIdx = Zero3
    /\ joinIdx = 1
    /\ running = NoTask
    /\ counter = 0
    /\ out = EmptyMap
    /\ stray = 0
    /\ bodyRuns = EmptyMap
    /\ seenIdx = EmptyMap
    /\ atomicRet = << >>
    /\ loaded = {}
    /\ raised = FALSE

(***************************************************************************)
(* FiberBarrier (lines 145-201).                                           *)
(***************************************************************************)
\* "--m_uiNumFibersToWaitFor" on a std::size_t.
Decrement(cnt) == IF cnt = 0 THEN SizeMax ELSE cnt - 1

\* Mutant of WaitPredicate: the wait never blocks.
WaitPredicate_Always(cnt) == TRUE

\* The predicate of m_cvAllFibersReachedBarrier.wait(lock, ...).
WaitPredicate(cnt) == cnt = 0

\* Mutant of NotifyAll: notify_one, the first blocked fiber only.
NotifyAll_One(fibers, b) ==
    LET blocked == {s \in DOMAIN fibers :
                       fibers[s].syn = "wait" /\ fibers[s].bar = b}
    IN  [s \in DOMAIN fibers |->
            IF s \in blocked /\ \A u \in blocked : s <= u
            THEN [fibers[s] EXCEPT !.syn = "woken"]
            ELSE fibers[s]]

\* m_cvAllFibersReachedBarrier.notify_all() of barrier b: every fiber
\* blocked in the wait of that barrier becomes ready; it evaluates the
\* predicate when it is resumed.
NotifyAll(fibers, b) ==
    [s \in DOMAIN fibers |->
        IF fibers[s].syn = "wait" /\ fibers[s].bar = b
        THEN [fibers[s] EXCEPT !.syn = "woken"]
        ELSE fibers[s]]

(***************************************************************************)
(* AccFibers::syncBlockKernels (lines 274-295), the parts without          *)
(* suspension.                                                             *)
(***************************************************************************)
\* Mutant of BarrierIndex: a single barrier.
BarrierIndex_Single(uiBarIndex) == 0

\* "uiBarIndex % 2"
BarrierIndex(uiBarIndex) == uiBarIndex % 2

\* Mutant of NextPhase: the counter toggles between the two barriers.
NextPhase_Toggle(uiBarIndex) == (uiBarIndex + 1) % 2

\* "++uiBarIndex" (line 294).
NextPhase(uiBarIndex) == uiBarIndex + 1

\* Mutant of ResetIfFirst: the barrier is armed by every arrival.
ResetIfFirst_Always(cnt, n) == n

\* Mutant of ResetIfFirst: the barrier is armed for one fiber too few.
ResetIfFirst_OneLess(cnt, n) == IF cnt = 0 THEN (IF n > 1 THEN n - 1 ELSE n) ELSE cnt

\* "if(bar.getNumFibersToWaitFor() == 0) bar.reset(m_uiNumKernelsPerBlock)"
ResetIfFirst(cnt, n) == IF cnt = 0 THEN n ELSE cnt

\* Mutant of ArmedBeforeWait: wait() is entered without the reset.
ArmedBeforeWait_NoReset(cnt, n) == cnt

\* Lines 285-293: the count wait() is called with, after the reset of an
\* idle barrier.
ArmedBeforeWait(cnt, n) == ResetIfFirst(cnt, n)

(***************************************************************************)
(* IndexFibers (lines 61-100).                                             *)
(***************************************************************************)
\* The assert of getIdxBlockKernel.
IsRegistered(id) == id \in DOMAIN m_mFibersToIndices

\* getIdxBlockKernel() called by the fiber with the given id.
getIdxBlockKernel(id) == m_mFibersToIndices[id]

\* Mutant of getIdxGridBlock: the wrong vector is returned.
getIdxGridBlock_Lane == v3uiBlockKernelIdx

\* getIdxGridBlock(): the referenced m_v3uiGridBlockIdx.
getIdxGridBlock == m_v3uiGridBlockIdx

(***************************************************************************)
(* AtomicOp<AtomicFibers, TOp, T> (lines 127-134).                         *)
(***************************************************************************)
\* TOp::op of the Add operation: *addr += value, the old *addr is returned.
OpAdd(mem, value) == [ret |-> mem, new |-> mem + value]

\* Mutant of atomicOp: the new value is returned.
atomicOp_RetNew(mem, value) ==
    [ret |-> OpAdd(mem, value).new, new |-> OpAdd(mem, value).new]

\* "return TOp::op(addr, value);"
atomicOp(mem, value) == OpAdd(mem, value)

(***************************************************************************)
(* Positions of a fiber.                                                   *)
(***************************************************************************)
Op(f) == kernel.prog[f.ip]

InBody(f) == f.pc = "body" /\ f.ip <= Len(kernel.prog)

\* Mutant of NextOp: fiberKernel returns right after the kernel, without
\* the second syncBlockKernels.
NextOp_NoFinalSync(f) ==
    IF f.ip + 1 > Len(kernel.prog)
    THEN [f EXCEPT !.pc = "end", !.ip = f.ip + 1, !.ap = 0]
    ELSE [f EXCEPT !.ip = f.ip + 1, !.ap = 0]

\* The kernel call at ip is complete: go to the next one, or return from
\* the kernel to the second syncBlockKernels of fiberKernel.
NextOp(f) ==
    IF f.ip + 1 > Len(kernel.prog)
    THEN [f EXCEPT !.pc = "sync2", !.ip = f.ip + 1, !.ap = 0]
    ELSE [f EXCEPT !.ip = f.ip + 1, !.ap = 0]

\* Mutant of AllocSteps: allocBlockSharedMem without its first
\* syncBlockKernels.
AllocSteps_NoEntrySync == <<"append", "sync", "return">>

\* The statements of allocBlockSharedMem (lines 306-315); f.ap statements
\* of the call in progress are done.
AllocSteps == <<"sync", "append", "sync", "return">>

\* The statement of allocBlockSharedMem fiber f is at.
AllocStep(f) == AllocSteps[f.ap + 1]

\* The fiber is about to call syncBlockKernels: from fiberKernel (lines 487
\* and 493), from the kernel, or from allocBlockSharedMem (lines 306, 313).
AtSync(f) ==
    \/ f.pc \in {"sync1", "sync2"}
    \/ /\ InBody(f)
       /\ \/ Op(f) = "sync"
          \/ Op(f) = "sync0" /\ f.ap = 1
          \/ Op(f) = "alloc" /\ AllocStep(f) = "sync"

\* Where syncBlockKernels returns to.
SyncReturn(f) ==
    LET g == [f EXCEPT !.syn = "no", !.returned = f.returned + 1]
    IN  IF f.pc = "sync1" THEN [g EXCEPT !.pc = "body"]
        ELSE IF f.pc = "sync2" THEN [g EXCEPT !.pc = "end"]
        ELSE IF Op(f) = "alloc" THEN [g EXCEPT !.ap = f.ap + 1]
        ELSE NextOp(g)

Inc(m, k) == IF k \in DOMAIN m THEN [m EXCEPT ![k] = m[k] + 1] ELSE Put(m, k, 1)

\* The kernel operator() is entered when the first syncBlockKernels of
\* fiberKernel returns (line 490).
EnterBody(f, s) ==
    bodyRuns' = IF f.pc = "sync1" THEN Inc(bodyRuns, <<f.blk, s>>) ELSE bodyRuns

\* Fiber actions are taken while operator() is in its block loop.
InBlock == execPc \in {"spawn", "join"}

FiberStep(s) ==
    /\ InBlock
    /\ s \in Slots
    /\ Ready(s)
    /\ CanRun(FiberTask(s))

(***************************************************************************)
(* KernelExecutor::operator() (lines 376-458).                             *)
(***************************************************************************)
\* Mutant of TooLarge: the ceiling itself is rejected.
TooLarge_Inclusive(uiNumKernelsPerBlock) ==
    uiNumKernelsPerBlock >= getSizeBlockKernelsLinearMax

\* "if(uiNumKernelsPerBlock > uiMaxKernelsPerBlock)"
TooLarge(uiNumKernelsPerBlock) ==
    uiNumKernelsPerBlock > getSizeBlockKernelsLinearMax

\* std::vector<uint8_t>::resize(n): the elements kept, cut or followed by
\* zeros.
Resize(v, n) == [i \in 1..n |-> IF i <= Len(v) THEN v[i] ELSE 0]

\* operator() can be called: the executor has just been constructed, or
\* an earlier call has returned or has thrown at the size check.
Callable == execPc \in {"idle", "done", "failed"}

\* Mutant of NumKernelsAfterCheck: the size is stored before the check.
NumKernelsAfterCheck_Early(old, n) == n

\* Mutant of NumKernelsAfterCheck: the size is stored by the first call
\* only.
NumKernelsAfterCheck_Once(old, n) ==
    IF TooLarge(n) \/ old # 0 THEN old ELSE n

\* Lines 384-391: m_uiNumKernelsPerBlock after the size check; the
\* assignment is not reached when the check throws.
NumKernelsAfterCheck(old, n) == IF TooLarge(n) THEN old ELSE n

\* Lines 382-413: the work size is stored, the block size validated, the
\* external shared memory sized and the first block entered.  Every call
\* starts with its own loop counters and is given a kernel and kernel
\* arguments of its own (the history of the call before is dropped).
Execute(g, b, k) ==
    /\ Callable
    /\ running = NoTask
    /\ workSize' = [grid |-> g, block |-> b]
    /\ kernel' = k
    /\ m_uiNumKernelsPerBlock' =
           NumKernelsAfterCheck(m_uiNumKernelsPerBlock, Linear(b))
    /\ IF TooLarge(Linear(b))
       THEN /\ execPc' = "failed"
            /\ running' = NoTask
            /\ UNCHANGED <<m_vuiExternalSharedMem, m_v3uiGridBlockIdx>>
       ELSE /\ m_vuiExternalSharedMem' =
                   Resize(m_vuiExternalSharedMem,
                          getBlockSharedExternMemSizeBytes(k, b))
            /\ m_v3uiGridBlockIdx' = Zero3
            /\ execPc' = "spawn"
            /\ running' = MainTask
    /\ tIdx' = Zero3
    /\ v3uiBlockKernelIdx' = Zero3
    /\ joinIdx' = 1
    /\ counter' = 0
    /\ out' = EmptyMap
    /\ stray' = 0
    /\ bodyRuns' = EmptyMap
    /\ seenIdx' = EmptyMap
    /\ atomicRet' = << >>
    /\ loaded' = {}
    /\ raised' = FALSE
    /\ UNCHANGED <<m_mFibersToIndices, m_mFibersToBarrier, m_abarSyncFibers,
                   m_idMasterFiber, m_vvuiSharedMem, m_vFibersInBlock>>

\* The call of operator() on an executor just constructed.
FirstCall(g, b, k) == execPc = "idle" /\ Execute(g, b, k)

\* Lines 416-436, one iteration: the loop counters are stored in
\* v3uiBlockKernelIdx and a fiber is created with a copy of it.  Creating
\* a fiber is a suspension point: the new fiber, another ready fiber or
\* operator() goes on.  The fibers of a block of more than MaxFibers
\* kernels are not explored.
SpawnFiber ==
    /\ execPc = "spawn"
    /\ CanRun(MainTask)
    /\ m_uiNumKernelsPerBlock <= MaxFibers    \* bound of the model
    /\ v3uiBlockKernelIdx' = tIdx
    /\ \E id \in NewIds :
          m_vFibersInBlock' =
              Append(m_vFibersInBlock, NewFiber(id, tIdx, m_v3uiGridBlockIdx))
    /\ IF HasNext(tIdx, workSize.block)
       THEN /\ tIdx' = NextIdx(tIdx, workSize.block)
            /\ UNCHANGED <<execPc, joinIdx>>
       ELSE /\ execPc' = "join"
            /\ joinIdx' = 1
            /\ UNCHANGED tIdx
    /\ running' = NoTask
    /\ UNCHANGED <<workSize, kernel, accVars, histVars>>

\* Mutant of CanJoin: join returns at once.
CanJoin_NoWait(s) == TRUE

\* fiber::join() returns once the fiber has finished.
CanJoin(s) == ~Alive(s)

\* Lines 438-443, one join.  join is a suspension point.
JoinFiber ==
    /\ execPc = "join"
    /\ CanRun(MainTask)
    /\ joinIdx <= Len(m_vFibersInBlock)
    /\ CanJoin(joinIdx)
    /\ joinIdx' = joinIdx + 1
    /\ running' = NoTask
    /\ UNCHANGED <<workSize, kernel, accVars, m_vFibersInBlock, execPc, tIdx,
                   v3uiBlockKernelIdx, histVars>>

\* Mutant of ClearMap: the map keeps its entries.
ClearMap_Keep(m) == m

\* std::map::clear() (lines 446, 447).
ClearMap(m) == EmptyMap

\* std::vector::clear() (lines 445, 450, 451).
ClearVec(v) == << >>

\* Lines 444-451 and the step of the block loops (lines 405-413): the
\* per-block state is cleared and the next block entered, or operator()
\* returns.
EndBlock ==
    /\ execPc = "join"
    /\ CanRun(MainTask)
    /\ joinIdx > Len(m_vFibersInBlock)
    /\ m_vFibersInBlock' = ClearVec(m_vFibersInBlock)
    /\ m_mFibersToIndices' = ClearMap(m_mFibersToIndices)
    /\ m_mFibersToBarrier' = ClearMap(m_mFibersToBarrier)
    /\ m_vvuiSharedMem' = ClearVec(m_vvuiSharedMem)
    /\ m_vuiExternalSharedMem' = ClearVec(m_vuiExternalSharedMem)
    /\ IF HasNext(m_v3uiGridBlockIdx, workSize.grid)
       THEN /\ m_v3uiGridBlockIdx' = NextIdx(m_v3uiGridBlockIdx, workSize.grid)
            /\ execPc' = "spawn"
            /\ tIdx' = Zero3
            /\ running' = MainTask
       ELSE /\ execPc' = "done"
            /\ running' = NoTask
            /\ UNCHANGED <<m_v3uiGridBlockIdx, tIdx>>
    /\ loaded' = {}
    /\ UNCHANGED <<workSize, kernel, m_uiNumKernelsPerBlock, m_abarSyncFibers,
                   m_idMasterFiber, v3uiBlockKernelIdx, joinIdx, counter, out,
                   stray, bodyRuns, seenIdx, atomicRet, raised>>

(***************************************************************************)
(* KernelExecutor::fiberKernel (lines 463-494).                            *)
(***************************************************************************)
\* Mutant of FiberArgIdx: the fiber refers to the loop variable.
FiberArgIdx_ByRef(f) == v3uiBlockKernelIdx

\* The v3uiBlockKernelIdx parameter of fiberKernel: the copy bound at
\* creation.
FiberArgIdx(f) == f.arg

\* Mutant of Registered: the fiber does not store its index.
Registered_Not(m, id, idx) == m

\* Lines 478/481: the fiber stores its id and index.
Registered(m, id, idx) == MapInsert(m, id, idx)

\* Mutant of BarrierRegistered: the fiber does not store its barrier
\* counter.
BarrierRegistered_Not(m, id) == m

\* Lines 479/482: the fiber stores its id with the barrier counter 0.
BarrierRegistered(m, id) == MapInsert(m, id, 0)

\* Mutant of MasterAfterStart: the master id is stored only while none is
\* stored.
MasterAfterStart_Once(old, id, idx) ==
    IF idx = Zero3 /\ old = NoId THEN id ELSE old

\* Lines 470-473: the fiber with the index (0,0,0) stores its id as the
\* master id.
MasterAfterStart(old, id, idx) == IF idx = Zero3 THEN id ELSE old

\* Lines 467-484: up to the first syncBlockKernels.
FiberStart(s) ==
    /\ FiberStep(s)
    /\ LET f == m_vFibersInBlock[s]
           idx == FiberArgIdx(f)
       IN  /\ f.pc = "start"
           /\ m_idMasterFiber' = MasterAfterStart(m_idMasterFiber, f.id, idx)
           /\ m_mFibersToIndices' = Registered(m_mFibersToIndices, f.id, idx)
           /\ m_mFibersToBarrier' = BarrierRegistered(m_mFibersToBarrier, f.id)
           /\ m_vFibersInBlock' = [m_vFibersInBlock EXCEPT ![s].pc = "sync1"]
    /\ running' = FiberTask(s)
    /\ UNCHANGED <<workSize, kernel, m_v3uiGridBlockIdx, m_uiNumKernelsPerBlock,
                   m_abarSyncFibers, m_vvuiSharedMem, m_vuiExternalSharedMem,
                   execPc, tIdx, v3uiBlockKernelIdx, joinIdx, histVars>>

\* A failed assert (lines 85, 278) in fiber s ends the program.
AssertFail(s) ==
    /\ execPc' = "asserted"
    /\ running' = FiberTask(s)
    /\ UNCHANGED <<workSize, kernel, accVars, m_vFibersInBlock, tIdx,
                   v3uiBlockKernelIdx, joinIdx, histVars>>

\* The assert of syncBlockKernels (lines 277-278).
HasBarrierEntry(id) == id \in DOMAIN m_mFibersToBarrier

\* A crash (an access outside a buffer) in fiber s ends the program.
Abort(s) ==
    /\ execPc' = "crashed"
    /\ running' = FiberTask(s)
    /\ UNCHANGED <<workSize, kernel, accVars, m_vFibersInBlock, tIdx,
                   v3uiBlockKernelIdx, joinIdx, histVars>>

\* syncBlockKernels from its entry into FiberBarrier::wait (lines 276-293
\* and 168-176): the barrier is picked and armed if it is idle, the count
\* decremented; the last fiber notifies the others and returns (line 294),
\* every other fiber evaluates the predicate of the wait and blocks in the
\* condition variable if it does not hold.
SyncArrive(s) ==
    /\ FiberStep(s)
    /\ AtSync(m_vFibersInBlock[s])
    /\ m_vFibersInBlock[s].syn = "no"
    /\ LET f == m_vFibersInBlock[s]
       IN  IF ~HasBarrierEntry(f.id)
           THEN AssertFail(s)
           ELSE LET b == BarrierIndex(m_mFibersToBarrier[f.id])
                    cnt == Decrement(ArmedBeforeWait(m_abarSyncFibers[b],
                                                     m_uiNumKernelsPerBlock))
                    g == [f EXCEPT !.issued = f.issued + 1, !.bar = b]
                IN  /\ m_abarSyncFibers' = [m_abarSyncFibers EXCEPT ![b] = cnt]
                    /\ IF cnt = 0 \/ WaitPredicate(cnt)
                       THEN /\ m_vFibersInBlock' =
                                   [(IF cnt = 0
                                     THEN NotifyAll(m_vFibersInBlock, b)
                                     ELSE m_vFibersInBlock)
                                       EXCEPT ![s] = SyncReturn(g)]
                            /\ m_mFibersToBarrier' =
                                   [m_mFibersToBarrier EXCEPT
                                       ![f.id] = NextPhase(m_mFibersToBarrier[f.id])]
                            /\ EnterBody(f, s)
                            /\ running' = FiberTask(s)
                            /\ UNCHANGED execPc
                       ELSE /\ m_vFibersInBlock' =
                                   [m_vFibersInBlock EXCEPT
                                       ![s] = [g EXCEPT !.syn = "wait"]]
                            /\ running' = NoTask
                            /\ UNCHANGED <<m_mFibersToBarrier, bodyRuns,
                                           execPc>>
                    /\ UNCHANGED <<workSize, kernel, m_mFibersToIndices,
                                   m_v3uiGridBlockIdx, m_uiNumKernelsPerBlock,
                                   m_idMasterFiber, m_vvuiSharedMem,
                                   m_vuiExternalSharedMem, tIdx,
                                   v3uiBlockKernelIdx, joinIdx, counter, out,
                                   stray, seenIdx, atomicRet, loaded, raised>>

\* A notified fiber is resumed inside condition_variable::wait (line 175):
\* it returns from the wait and from syncBlockKernels (line 294) if the
\* predicate holds, and blocks again otherwise.
SyncResume(s) ==
    /\ FiberStep(s)
    /\ m_vFibersInBlock[s].syn = "woken"
    /\ LET f == m_vFibersInBlock[s]
       IN  IF WaitPredicate(m_abarSyncFibers[f.bar])
           THEN /\ m_vFibersInBlock' =
                       [m_vFibersInBlock EXCEPT ![s] = SyncReturn(f)]
                /\ m_mFibersToBarrier' =
                       [m_mFibersToBarrier EXCEPT
                           ![f.id] = NextPhase(m_mFibersToBarrier[f.id])]
                /\ EnterBody(f, s)
                /\ running' = FiberTask(s)
           ELSE /\ m_vFibersInBlock' =
                       [m_vFibersInBlock EXCEPT ![s].syn = "wait"]
                /\ running' = NoTask
                /\ UNCHANGED <<m_mFibersToBarrier, bodyRuns>>
    /\ UNCHANGED <<workSize, kernel, m_mFibersToIndices, m_v3uiGridBlockIdx,
                   m_uiNumKernelsPerBlock, m_abarSyncFibers, m_idMasterFiber,
                   m_vvuiSharedMem, m_vuiExternalSharedMem, execPc, tIdx,
                   v3uiBlockKernelIdx, joinIdx, counter, out, stray, seenIdx,
                   atomicRet, loaded, raised>>

\* The fiber function returns (line 494): the fiber has finished.
FiberExit(s) ==
    /\ FiberStep(s)
    /\ m_vFibersInBlock[s].pc = "end"
    /\ m_vFibersInBlock' = [m_vFibersInBlock EXCEPT ![s].pc = "terminated"]
    /\ running' = NoTask
    /\ UNCHANGED <<workSize, kernel, accVars, execPc, tIdx, v3uiBlockKernelIdx,
                   joinIdx, histVars>>

(***************************************************************************)
(* The kernel's calls (line 490).                                          *)
(***************************************************************************)
KernelStep(s, op) ==
    /\ FiberStep(s)
    /\ InBody(m_vFibersInBlock[s])
    /\ Op(m_vFibersInBlock[s]) = op
    /\ running' = FiberTask(s)

\* "idx": the kernel reads both indices and writes
\* out[flat(block, lane)] = block * 10 + lane.
KernelIdx(s) ==
    /\ KernelStep(s, "idx")
    /\ LET f == m_vFibersInBlock[s]
       IN  IF ~IsRegistered(f.id)
           THEN AssertFail(s)
           ELSE LET l == getIdxBlockKernel(f.id)
                    b == getIdxGridBlock
                    fl == Flatten(l, workSize.block)
                    fb == Flatten(b, workSize.grid)
                IN  /\ out' = Put(out, fb * Linear(workSize.block) + fl,
                                  fb * 10 + fl)
                    /\ seenIdx' = Put(seenIdx, <<f.blk, s>>,
                                      [lane |-> l, block |-> b, made |-> f.made])
                    /\ m_vFibersInBlock' =
                           [m_vFibersInBlock EXCEPT ![s] = NextOp(f)]
                    /\ UNCHANGED <<workSize, kernel, accVars, execPc, tIdx,
                                   v3uiBlockKernelIdx, joinIdx, counter, stray,
                                   bodyRuns, atomicRet, loaded, raised>>

\* "atomic": atomicOp<Add>(&counter, 1).
KernelAtomic(s) ==
    /\ KernelStep(s, "atomic")
    /\ LET f == m_vFibersInBlock[s]
           r == atomicOp(counter, 1)
       IN  /\ counter' = r.new
           /\ atomicRet' = Append(atomicRet, r.ret)
           /\ m_vFibersInBlock' = [m_vFibersInBlock EXCEPT ![s] = NextOp(f)]
    /\ UNCHANGED <<workSize, kernel, accVars, execPc, tIdx, v3uiBlockKernelIdx,
                   joinIdx, out, stray, bodyRuns, seenIdx, loaded, raised>>

\* "sync0": the kernel calls syncBlockKernels if its index is (0,0,0).
KernelSync0(s) ==
    /\ KernelStep(s, "sync0")
    /\ m_vFibersInBlock[s].ap = 0
    /\ LET f == m_vFibersInBlock[s]
       IN  IF ~IsRegistered(f.id)
           THEN AssertFail(s)
           ELSE /\ m_vFibersInBlock' =
                       [m_vFibersInBlock EXCEPT
                           ![s] = IF getIdxBlockKernel(f.id) = Zero3
                                  THEN [f EXCEPT !.ap = 1]
                                  ELSE NextOp(f)]
                /\ UNCHANGED <<workSize, kernel, accVars, execPc, tIdx,
                               v3uiBlockKernelIdx, joinIdx, histVars>>

\* "emplace_back()" of line 311: the element appended to m_vvuiSharedMem
\* is a default-constructed std::vector<uint8_t>; UiNumElements and
\* sizeof(T) are not used.
NewSharedBuffer(uiNumElements, elemSize) == << >>

\* Mutant of IsMaster: every fiber takes itself for the master.
IsMaster_Everyone(id) == TRUE

\* "m_idMasterFiber == boost::this_fiber::get_id()"
IsMaster(id) == m_idMasterFiber = id

\* allocBlockSharedMem between its two syncBlockKernels (lines 308-312).
KernelAllocAppend(s) ==
    /\ KernelStep(s, "alloc")
    /\ AllocStep(m_vFibersInBlock[s]) = "append"
    /\ LET f == m_vFibersInBlock[s]
       IN  /\ m_vvuiSharedMem' =
                  IF IsMaster(f.id)
                  THEN Append(m_vvuiSharedMem,
                              NewSharedBuffer(kernel.allocCount, kernel.elemSize))
                  ELSE m_vvuiSharedMem
           /\ m_vFibersInBlock' = [m_vFibersInBlock EXCEPT ![s].ap = f.ap + 1]
    /\ UNCHANGED <<workSize, kernel, m_mFibersToIndices, m_v3uiGridBlockIdx,
                   m_uiNumKernelsPerBlock, m_mFibersToBarrier, m_abarSyncFibers,
                   m_idMasterFiber, m_vuiExternalSharedMem, execPc, tIdx,
                   v3uiBlockKernelIdx, joinIdx, histVars>>

\* "m_vvuiSharedMem.back()": the position of the last buffer.
Back(vv) == Len(vv)

\* allocBlockSharedMem returns (line 315); back() of an empty vector is
\* undefined and taken as a crash.
KernelAllocReturn(s) ==
    /\ KernelStep(s, "alloc")
    /\ AllocStep(m_vFibersInBlock[s]) = "return"
    /\ LET f == m_vFibersInBlock[s]
       IN  IF m_vvuiSharedMem = << >>
           THEN Abort(s)
           ELSE /\ m_vFibersInBlock' =
                       [m_vFibersInBlock EXCEPT
                           ![s] = NextOp([f EXCEPT
                                     !.rets = Append(f.rets, Back(m_vvuiSharedMem))])]
                /\ UNCHANGED <<workSize, kernel, accVars, execPc, tIdx,
                               v3uiBlockKernelIdx, joinIdx, histVars>>

\* The buffer the last allocation of fiber f returned.
LastAlloc(f) == f.rets[Len(f.rets)]

\* "write": the fiber (0,0,0) stores kernel.val at element 0 of its last
\* allocation.  A store beyond the end of the buffer is undefined: the
\* program crashes, or the value lands outside the buffer.
KernelWrite(s) ==
    /\ KernelStep(s, "write")
    /\ LET f == m_vFibersInBlock[s]
       IN  IF ~IsRegistered(f.id)
           THEN AssertFail(s)
           ELSE IF getIdxBlockKernel(f.id) # Zero3
           THEN /\ m_vFibersInBlock' =
                       [m_vFibersInBlock EXCEPT ![s] = NextOp(f)]
                /\ UNCHANGED <<workSize, kernel, accVars, execPc, tIdx,
                               v3uiBlockKernelIdx, joinIdx, histVars>>
           ELSE IF Len(m_vvuiSharedMem[LastAlloc(f)]) >= 1
           THEN /\ m_vvuiSharedMem' =
                       [m_vvuiSharedMem EXCEPT ![LastAlloc(f)][1] = kernel.val]
                /\ m_vFibersInBlock' =
                       [m_vFibersInBlock EXCEPT ![s] = NextOp(f)]
                /\ UNCHANGED <<workSize, kernel, m_mFibersToIndices,
                               m_v3uiGridBlockIdx, m_uiNumKernelsPerBlock,
                               m_mFibersToBarrier, m_abarSyncFibers,
                               m_idMasterFiber, m_vuiExternalSharedMem, execPc,
                               tIdx, v3uiBlockKernelIdx, joinIdx, histVars>>
           ELSE \E outcome \in {"crash", "stray"} :
                   IF outcome = "crash"
                   THEN Abort(s)
                   ELSE /\ stray' = kernel.val
                        /\ m_vFibersInBlock' =
                               [m_vFibersInBlock EXCEPT ![s] = NextOp(f)]
                        /\ UNCHANGED <<workSize, kernel, accVars, execPc, tIdx,
                                       v3uiBlockKernelIdx, joinIdx, counter,
                                       out, bodyRuns, seenIdx, atomicRet,
                                       loaded, raised>>

\* "read": every fiber but (0,0,0) loads element 0 of its last allocation.
\* A load beyond the end of the buffer is undefined: the program crashes,
\* or yields whatever is there.
KernelRead(s) ==
    /\ KernelStep(s, "read")
    /\ LET f == m_vFibersInBlock[s]
           buf == m_vvuiSharedMem[LastAlloc(f)]
       IN  IF ~IsRegistered(f.id)
           THEN AssertFail(s)
           ELSE IF getIdxBlockKernel(f.id) = Zero3
           THEN /\ m_vFibersInBlock' =
                       [m_vFibersInBlock EXCEPT ![s] = NextOp(f)]
                /\ UNCHANGED <<workSize, kernel, accVars, execPc, tIdx,
                               v3uiBlockKernelIdx, joinIdx, histVars>>
           ELSE \E outcome \in {"crash", "zero", "stray"} :
                   IF Len(buf) < 1 /\ outcome = "crash"
                   THEN Abort(s)
                   ELSE /\ loaded' = loaded \cup
                                         {IF Len(buf) >= 1 THEN buf[1]
                                          ELSE IF outcome = "zero" THEN 0
                                          ELSE stray}
                        /\ m_vFibersInBlock' =
                               [m_vFibersInBlock EXCEPT ![s] = NextOp(f)]
                        /\ UNCHANGED <<workSize, kernel, accVars, execPc, tIdx,
                                       v3uiBlockKernelIdx, joinIdx, counter,
                                       out, stray, bodyRuns, seenIdx,
                                       atomicRet, raised>>

\* Mutant of Escapes: fiberKernel catches what the kernel throws and goes
\* on.
Escapes_Caught(f) == FALSE

\* The kernel call of line 490 is not inside a try block, nor is any
\* other part of fiberKernel: what the kernel throws leaves the fiber
\* function.
Escapes(f) == TRUE

\* An exception leaves the function of fiber s: the fiber library calls
\* std::terminate.
Terminate(s) ==
    /\ execPc' = "terminate"
    /\ UNCHANGED <<workSize, kernel, accVars, m_vFibersInBlock, tIdx,
                   v3uiBlockKernelIdx, joinIdx, counter, out, stray, bodyRuns,
                   seenIdx, atomicRet, loaded>>

\* "throw": the kernel throws, or does not.
KernelThrow(s) ==
    /\ KernelStep(s, "throw")
    /\ LET f == m_vFibersInBlock[s]
       IN  \E throws \in BOOLEAN :
              /\ raised' = (raised \/ throws)
              /\ IF throws /\ Escapes(f)
                 THEN Terminate(s)
                 ELSE /\ m_vFibersInBlock' =
                             [m_vFibersInBlock EXCEPT ![s] = NextOp(f)]
                      /\ UNCHANGED <<workSize, kernel, accVars, execPc, tIdx,
                                     v3uiBlockKernelIdx, joinIdx, counter, out,
                                     stray, bodyRuns, seenIdx, atomicRet,
                                     loaded>>

(***************************************************************************)
(* Specification.                                                          *)
(***************************************************************************)
\* The steps of the tasks once operator() has been called.
Steps ==
    \/ SpawnFiber
    \/ JoinFiber
    \/ EndBlock
    \/ \E s \in Slots : FiberStart(s)
    \/ \E s \in Slots : SyncArrive(s)
    \/ \E s \in Slots : SyncResume(s)
    \/ \E s \in Slots : FiberExit(s)
    \/ \E s \in Slots : KernelIdx(s)
    \/ \E s \in Slots : KernelAtomic(s)
    \/ \E s \in Slots : KernelSync0(s)
    \/ \E s \in Slots : KernelAllocAppend(s)
    \/ \E s \in Slots : KernelAllocReturn(s)
    \/ \E s \in Slots : KernelWrite(s)
    \/ \E s \in Slots : KernelRead(s)
    \/ \E s \in Slots : KernelThrow(s)

Next ==
    \/ \E g \in GridExtents, b \in BlockExtents, k \in Kernels :
          FirstCall(g, b, k)
    \/ Steps

Spec == Init /\ [][Next]_vars

\* The specification for the liveness properties.  The extents are taken
\* along x only (the barriers do not read the shape of the block or of the
\* grid).  Fairness: the scheduler resumes a ready task whenever the
\* thread is free, and a running task goes on until it suspends.
LineExtents(n) == {<<i, 1, 1>> : i \in 1..n}

FairNext ==
    \/ \E g \in LineExtents(MaxBlocks), b \in LineExtents(MaxLanes), k \in Kernels :
          FirstCall(g, b, k)
    \/ Steps

FairSpec == Init /\ [][FairNext]_vars /\ WF_vars(FairNext)

\* The specification for the order of the loops: the "idx" kernel on
\* grids and blocks that have room for two sides above 1, the other
\* kernels with extents along x.
OrderNext ==
    \/ \E g \in Extents(MaxVisits), b \in Extents(MaxFibers) :
          FirstCall(g, b, KRecord)
    \/ \E g \in LineExtents(MaxBlocks), b \in LineExtents(MaxLanes),
          k \in Kernels \ {KRecord} :
          FirstCall(g, b, k)
    \/ Steps

OrderSpec == Init /\ [][OrderNext]_vars

\* The specification for calls that follow one another on the same
\* executor: operator() is called again, any number of times, after it
\* has returned or has thrown at the size check.  The extents are taken
\* along x, with the block extent above the ceiling among them, and the
\* kernel with an odd number of syncBlockKernels calls is one of the
\* kernels.
CallsNext ==
    \/ \E g \in LineExtents(MaxBlocks),
          b \in LineExtents(MaxLanes)
                    \cup {<<getSizeBlockKernelsLinearMax + 1, 1, 1>>},
          k \in Kernels \cup {KSync1} :
          Execute(g, b, k)
    \/ Steps

CallsSpec == Init /\ [][CallsNext]_vars

(***************************************************************************)
(* Properties.                                                             *)
(***************************************************************************)
Fibers == m_vFibersInBlock

NumLanes == Linear(workSize.block)

NumBlocks == Linear(workSize.grid)

\* Fiber s is inside FiberBarrier::wait.
InWait(s) == s \in Slots /\ Fibers[s].syn \in {"wait", "woken"}

\* Every fiber of the block has issued the syncBlockKernels call that
\* fiber s is in.
AllIssued(s) ==
    /\ Len(Fibers) = NumLanes
    /\ \A u \in Slots : Fibers[u].issued >= Fibers[s].issued

\* No fiber has returned from its k-th syncBlockKernels before every fiber
\* of the block has issued its k-th.
NoEarlyReturn ==
    \A s \in Slots :
        Fibers[s].returned >= 1 =>
            /\ Len(Fibers) = NumLanes
            /\ \A u \in Slots : Fibers[u].issued >= Fibers[s].returned

\* The program has been ended by a crash, a failed assert or
\* std::terminate.
ProgramEnded == execPc \in {"crashed", "asserted", "terminate"}

\* C1: Barrier rendezvous.  No wait() returns before all N fibers of the
\* block have issued that wait(), and once all N have issued it every one
\* of them returns from it (unless the kernel has ended the program
\* meanwhile).
C1_BarrierRendezvous ==
    /\ []NoEarlyReturn
    /\ \A s \in 1..MaxLanes :
          (InWait(s) /\ AllIssued(s)) ~> (~InWait(s) \/ ProgramEnded)

\* C1 witness: a block of at least two fibers all of which have returned
\* from the first rendezvous.
C1_Witness ==
    /\ NumLanes >= 2
    /\ Len(Fibers) = NumLanes
    /\ \A s \in Slots : Fibers[s].returned >= 1

\* The keys of the histories: every block of the grid with every spawn
\* slot of the block.
AllKeys == Coords(workSize.grid) \X (1..NumLanes)

\* C2: after operator() has returned, the kernel has been entered exactly
\* once per block and fiber, and every getIdxBlockKernel() call returned
\* the loop counters its fiber was created with; the "idx" kernel has
\* made the call in every fiber, with every coordinate of the block
\* extent seen once per block.
C2_OncePerLane ==
    (execPc = "done") =>
        /\ DOMAIN bodyRuns = AllKeys
        /\ \A key \in AllKeys : bodyRuns[key] = 1
        /\ \A key \in DOMAIN seenIdx : seenIdx[key].lane = seenIdx[key].made
        /\ kernel = KRecord =>
              /\ DOMAIN seenIdx = AllKeys
              /\ \A b \in Coords(workSize.grid) :
                    /\ {seenIdx[<<b, s>>].lane : s \in 1..NumLanes}
                           = Coords(workSize.block)
              /\ DOMAIN out = 0..(NumBlocks * NumLanes - 1)

\* C2 witness: the "idx" kernel has run on several blocks of several
\* fibers.
C2_Witness ==
    /\ execPc = "done"
    /\ kernel = KRecord
    /\ NumLanes >= 2
    /\ NumBlocks >= 2

\* C3: operator() throws exactly if the linear block size is greater than
\* 1024, and then no fiber exists and no kernel has run.
C3_RejectsOversized ==
    /\ execPc # "idle" => (execPc = "failed" <=> NumLanes > 1024)
    /\ execPc = "failed" =>
          /\ Fibers = << >>
          /\ bodyRuns = EmptyMap
          /\ out = EmptyMap
          /\ counter = 0

\* C3 witness: a call that threw.
C3_Witness == execPc = "failed" /\ NumLanes > 1024

\* Fibers inside wait() of the same barrier are in the same rendezvous,
\* and the count of a barrier some notified fiber has yet to look at is 0.
BuffersApart ==
    /\ \A s \in Slots :
          Fibers[s].syn = "woken" => m_abarSyncFibers[Fibers[s].bar] = 0
    /\ \A s, u \in Slots :
          (InWait(s) /\ InWait(u) /\ Fibers[s].bar = Fibers[u].bar)
              => Fibers[s].issued = Fibers[u].issued

\* No fiber of the "sync2" kernel is left inside wait() with no task able
\* to run.  (Every step advances a task and no fiber loops, so a fiber
\* that is never left like this returns from each of its calls.)
NeverStuck ==
    (kernel = KSync2 /\ \E s \in Slots : InWait(s)) => ENABLED Next

\* C4: Double buffering.  A fiber that arrives at its next
\* syncBlockKernels never arms or decrements the barrier that fibers
\* leaving the previous one still have to look at, no fiber returns from
\* its k-th call before all have issued their k-th, and the fibers making
\* two consecutive calls are never left blocked for good.
C4_DoubleBuffering ==
    /\ BuffersApart
    /\ NoEarlyReturn
    /\ NeverStuck

\* C4 witness: a fiber already waits in its next call while another has
\* been notified in the previous call and has not yet looked at the count.
C4_Witness ==
    \E s, u \in Slots :
        /\ Fibers[s].syn = "woken"
        /\ Fibers[u].syn = "wait"
        /\ Fibers[u].issued = Fibers[s].issued + 1
        /\ kernel = KSync2

\* C5: every buffer of m_vvuiSharedMem holds allocCount elements of
\* elemSize bytes, all zero (stated as the claim; the code appends an
\* empty buffer).
C5_AllocSized ==
    \A i \in 1..Len(m_vvuiSharedMem) :
        /\ Len(m_vvuiSharedMem[i]) = kernel.allocCount * kernel.elemSize
        /\ \A j \in 1..Len(m_vvuiSharedMem[i]) : m_vvuiSharedMem[i][j] = 0

\* C6: while a block is executed the external shared memory has the size
\* the kernel's size function gives for the block extent (stated as the
\* claim; the code clears it after the first block and never sizes it
\* again).
C6_ExternSized ==
    (execPc \in {"spawn", "join"}) =>
        Len(m_vuiExternalSharedMem) =
            getBlockSharedExternMemSizeBytes(kernel, workSize.block)

\* C7: the k-th allocation of every fiber returns the k-th buffer of the
\* block, and every value another fiber loads from it after the write of
\* the fiber (0,0,0) is the value written (stated as the claim; the buffer
\* is empty, so the store and the loads are out of bounds).
C7_SharedVisible ==
    /\ \A s \in Slots :
          \A k \in 1..Len(Fibers[s].rets) : Fibers[s].rets[k] = k
    /\ loaded \subseteq {kernel.val}

\* C8: the atomic add is one step that returns the prior value: the
\* counter always equals the number of operations done, and after
\* operator() has returned from the "atomic" kernel it equals blocks *
\* kernels per block, the returned values being exactly 0 .. total - 1.
C8_AtomicAdd ==
    /\ counter = Len(atomicRet)
    /\ \A i \in 1..Len(atomicRet) : atomicRet[i] = i - 1
    /\ (execPc = "done" /\ kernel = KAtomic) =>
          /\ counter = NumBlocks * NumLanes
          /\ {atomicRet[i] : i \in 1..Len(atomicRet)}
                 = 0..(NumBlocks * NumLanes - 1)

\* C8 witness: the "atomic" kernel has run on several blocks of several
\* fibers.
C8_Witness ==
    /\ execPc = "done"
    /\ kernel = KAtomic
    /\ NumLanes >= 2
    /\ NumBlocks >= 2

\* C9: as long as a fiber of a block exists, m_v3uiGridBlockIdx is the
\* index of the block the fiber was created in and getIdxGridBlock
\* returned it; a 2x1x1 grid of 2x1x1 blocks yields {0:0, 1:1, 2:10, 3:11}.
C9_BlockIdxStable ==
    /\ \A s \in Slots : m_v3uiGridBlockIdx = Fibers[s].blk
    /\ \A key \in DOMAIN seenIdx : seenIdx[key].block = key[1]
    /\ (/\ execPc = "done"
        /\ kernel = KRecord
        /\ workSize = [grid |-> <<2, 1, 1>>, block |-> <<2, 1, 1>>]) =>
          /\ DOMAIN out = 0..3
          /\ out[0] = 0
          /\ out[1] = 1
          /\ out[2] = 10
          /\ out[3] = 11

\* C9 witness: scenario B has run.
C9_Witness ==
    /\ execPc = "done"
    /\ kernel = KRecord
    /\ workSize = [grid |-> <<2, 1, 1>>, block |-> <<2, 1, 1>>]

\* A fiber of the block has entered the kernel.
BodyBegun ==
    \E s \in Slots : Fibers[s].pc \in {"body", "sync2", "end", "terminated"}

\* C10: from the moment a fiber enters the kernel until the block is
\* cleared, both maps have exactly one entry per fiber of the block, and
\* m_mFibersToIndices maps every fiber to the loop counters it was created
\* with.
C10_TablesComplete ==
    BodyBegun =>
        /\ Len(Fibers) = NumLanes
        /\ Cardinality(DOMAIN m_mFibersToIndices) = NumLanes
        /\ DOMAIN m_mFibersToIndices = {Fibers[s].id : s \in Slots}
        /\ DOMAIN m_mFibersToBarrier = {Fibers[s].id : s \in Slots}
        /\ \A s \in Slots : m_mFibersToIndices[Fibers[s].id] = Fibers[s].made

\* C10 witness: one fiber is in the kernel while another has not yet
\* returned from the first syncBlockKernels.
C10_Witness ==
    \E s, u \in Slots :
        /\ Fibers[s].pc = "body"
        /\ Fibers[u].pc = "sync1"
        /\ Fibers[u].syn = "woken"

\* Fiber s has stored its id and has not finished: it may call
\* getIdxBlockKernel or syncBlockKernels.
MayCall(s) == Fibers[s].pc \in {"sync1", "body", "sync2"}

\* C11: no assert of getIdxBlockKernel or syncBlockKernels fails: the id
\* of every fiber between its registration and its end is a key of
\* m_mFibersToIndices and of m_mFibersToBarrier.
C11_AssertsHold ==
    /\ execPc # "asserted"
    /\ \A s \in Slots :
          MayCall(s) => IsRegistered(Fibers[s].id) /\ HasBarrierEntry(Fibers[s].id)

\* C11 witness: in the second block a fiber has called getIdxBlockKernel
\* and is inside its last syncBlockKernels while another is in the kernel.
C11_Witness ==
    /\ m_v3uiGridBlockIdx # Zero3
    /\ \E s, u \in Slots :
          /\ <<Fibers[s].blk, s>> \in DOMAIN seenIdx
          /\ Fibers[s].pc = "sync2"
          /\ Fibers[s].issued = 2
          /\ Fibers[u].pc = "body"

\* Fiber s has returned from the second syncBlockKernels of fiberKernel.
Leaving(s) == Fibers[s].pc \in {"end", "terminated"}

\* Fiber s has returned from the kernel.
BodyDone(s) == Fibers[s].pc \in {"sync2", "end", "terminated"}

\* Every fiber of the kernel makes the same syncBlockKernels calls.
EvenSyncs == \A i \in 1..Len(kernel.prog) : kernel.prog[i] # "sync0"

\* All fibers of the block exist and have stored their ids.
AllStarted ==
    /\ Len(Fibers) = NumLanes
    /\ \A u \in Slots : Fibers[u].pc # "start"

\* The fibers of the block have pairwise distinct ids, and no other id is
\* a key of m_mFibersToIndices.
DistinctIds ==
    /\ \A s, u \in Slots : s # u => Fibers[s].id # Fibers[u].id
    /\ DOMAIN m_mFibersToIndices \subseteq {Fibers[s].id : s \in Slots}

\* C12 as stated: when a fiber leaves fiberKernel, every fiber of the block
\* has been created, has stored its id and has returned from the kernel,
\* whatever the kernel; the fibers of the block have pairwise distinct ids.
C12_AnyKernel ==
    /\ (\E s \in Slots : Leaving(s)) =>
          AllStarted /\ \A u \in Slots : BodyDone(u)
    /\ DistinctIds

\* C12, amended: when a fiber leaves fiberKernel, every fiber of the block
\* has been created and has stored its id and, if the kernel makes the same
\* syncBlockKernels calls in every fiber, has returned from the kernel; the
\* fibers of the block have pairwise distinct ids, which are the only keys
\* of m_mFibersToIndices.
C12_NoEarlyExit ==
    /\ (\E s \in Slots : Leaving(s)) =>
          AllStarted /\ (EvenSyncs => \A u \in Slots : BodyDone(u))
    /\ DistinctIds

\* C12 witness: a fiber has finished while another is still inside the
\* second syncBlockKernels, in a block whose fibers make calls in the
\* kernel.
C12_Witness ==
    /\ kernel = KSync2
    /\ \E s, u \in Slots :
          /\ Fibers[s].pc = "terminated"
          /\ Fibers[u].pc = "sync2"
          /\ Fibers[u].syn = "woken"

\* The per-block state of the accelerator is empty.
BlockStateClear(ind, bar, shm, ext) ==
    /\ ind = EmptyMap
    /\ bar = EmptyMap
    /\ shm = << >>
    /\ ext = << >>

\* A step that leaves the block: the block index changes or the fibers of
\* the block are dropped.
LeavesBlock ==
    \/ m_v3uiGridBlockIdx' # m_v3uiGridBlockIdx
    \/ Fibers # << >> /\ Fibers' = << >>

\* A step that creates a fiber.
Spawns == Len(Fibers') > Len(Fibers)

\* C13: the fibers that exist are fibers of the current block; the block
\* is left only when every fiber of it has finished and has been joined,
\* and then no fiber is left and the per-block state is cleared; a fiber
\* is created only while every fiber present belongs to the current
\* block, and the first one only with no fiber left.
C13_BlocksSequential ==
    /\ [](\A s \in Slots : Fibers[s].blk = m_v3uiGridBlockIdx)
    /\ [][LeavesBlock =>
            /\ \A s \in Slots : ~Alive(s)
            /\ joinIdx > Len(Fibers)
            /\ Fibers' = << >>
            /\ BlockStateClear(m_mFibersToIndices', m_mFibersToBarrier',
                               m_vvuiSharedMem', m_vuiExternalSharedMem')]_vars
    /\ [][Spawns =>
            /\ \A s \in Slots : Fibers[s].blk = m_v3uiGridBlockIdx
            /\ Fibers'[Len(Fibers')].blk = m_v3uiGridBlockIdx
            /\ tIdx = Zero3 => Fibers = << >>]_vars

\* C13 witness: the fibers of a later block run, the first of them having
\* finished and another having returned from the kernel.
C13_Witness ==
    /\ m_v3uiGridBlockIdx # Zero3
    /\ Len(Fibers) >= 2
    /\ Fibers[1].pc = "terminated"
    /\ \E u \in Slots : Fibers[u].pc \in {"sync2", "end"}

\* operator() is about to create the first fiber of a block that is not
\* the first block.
NextBlockEntered ==
    /\ execPc = "spawn"
    /\ Fibers = << >>
    /\ m_v3uiGridBlockIdx # Zero3

\* The number of allocBlockSharedMem calls fiber f has completed.
AllocsDone(f) == Cardinality({i \in 1..(f.ip - 1) : kernel.prog[i] = "alloc"})

\* Fiber s, the one with the index (0,0,0), is in its first
\* allocBlockSharedMem and has not yet appended.
AtFirstAppend(s) ==
    /\ Fibers[s].made = Zero3
    /\ InBody(Fibers[s])
    /\ Op(Fibers[s]) = "alloc"
    /\ Fibers[s].ap <= 1
    /\ AllocsDone(Fibers[s]) = 0

\* C14: when the first fiber of a further block is about to be created,
\* both maps, the shared memory and the external shared memory are empty;
\* every entry of the maps belongs to a fiber of the current block (its
\* index, and its count of completed syncBlockKernels calls); the first
\* allocBlockSharedMem of a block appends to an empty m_vvuiSharedMem.
C14_PerBlockReset ==
    /\ NextBlockEntered =>
          BlockStateClear(m_mFibersToIndices, m_mFibersToBarrier,
                          m_vvuiSharedMem, m_vuiExternalSharedMem)
    /\ \A id \in DOMAIN m_mFibersToIndices :
          \E s \in Slots :
              /\ Fibers[s].id = id
              /\ Fibers[s].pc # "start"
              /\ m_mFibersToIndices[id] = Fibers[s].made
    /\ \A id \in DOMAIN m_mFibersToBarrier :
          \E s \in Slots :
              /\ Fibers[s].id = id
              /\ Fibers[s].pc # "start"
              /\ m_mFibersToBarrier[id] = Fibers[s].returned
    /\ \A s \in Slots : AtFirstAppend(s) => m_vvuiSharedMem = << >>

\* C14 witness: in a later block, after a block that allocated, the fiber
\* (0,0,0) is about to append its first buffer.
C14_Witness ==
    /\ m_v3uiGridBlockIdx # Zero3
    /\ kernel = KAlloc
    /\ \E s \in Slots : AtFirstAppend(s) /\ Fibers[s].ap = 1

\* operator() runs a kernel that calls syncBlockKernels in the fiber
\* (0,0,0) only, on blocks of several fibers.
Uneven ==
    /\ kernel = KUneven
    /\ NumLanes >= 2
    /\ execPc \notin {"idle", "failed"}

\* A fiber is blocked in FiberBarrier::wait, every other fiber is blocked
\* there or has finished, and operator() is in the join of a fiber that
\* has not finished.
Blocked ==
    /\ \E s \in Slots : Fibers[s].syn = "wait"
    /\ \A s \in Slots : Fibers[s].syn = "wait" \/ ~Alive(s)
    /\ execPc = "join"
    /\ joinIdx <= Len(Fibers)
    /\ Alive(joinIdx)

\* C15: with a kernel that calls syncBlockKernels from the fiber (0,0,0)
\* only, on a block of at least two fibers, operator() never returns and
\* never enters a second block; the execution reaches a state in which a
\* fiber is blocked in the barrier and operator() in a join, that state
\* allows no step at all, and it lasts forever.
C15_UnevenDeadlocks ==
    /\ [](Uneven => execPc # "done" /\ m_v3uiGridBlockIdx = Zero3)
    /\ []((Uneven /\ Blocked) => ~ENABLED FairNext)
    /\ Uneven ~> [](Uneven /\ Blocked)

\* C15 witness: the fiber (0,0,0) is blocked in the syncBlockKernels after
\* the kernel, the other fibers have finished, operator() waits in the
\* join of the first fiber and the grid has a second block.
C15_Witness ==
    /\ Uneven
    /\ Blocked
    /\ NumBlocks >= 2
    /\ Fibers[1].pc = "sync2"
    /\ \A s \in Slots : s # 1 => ~Alive(s)

\* The fibers that enter FiberBarrier::wait of barrier b in this step.
Arrivals(b) ==
    {s \in Slots \cap DOMAIN Fibers' :
        /\ Fibers'[s].issued = Fibers[s].issued + 1
        /\ Fibers'[s].bar = b}

\* C16: the count of a barrier changes only in the step of a fiber that
\* enters its wait(), one fiber per step.  If the count is 0 then, the
\* barrier is armed to m_uiNumKernelsPerBlock and decremented once; no
\* fiber is still inside wait() of that barrier and no other fiber has
\* issued the call the arriving fiber issues.  Otherwise the count goes
\* down by exactly 1.  The count stays below m_uiNumKernelsPerBlock.
C16_NoSkippedGeneration ==
    /\ [](\A b \in 0..1 :
            m_abarSyncFibers[b] = 0 \/ m_abarSyncFibers[b] < m_uiNumKernelsPerBlock)
    /\ [][\A b \in 0..1 :
            /\ Cardinality(Arrivals(b)) <= 1
            /\ Arrivals(b) = {} => m_abarSyncFibers'[b] = m_abarSyncFibers[b]
            /\ \A s \in Arrivals(b) :
                  IF m_abarSyncFibers[b] = 0
                  THEN /\ m_abarSyncFibers'[b] = m_uiNumKernelsPerBlock - 1
                       /\ \A u \in Slots : ~(InWait(u) /\ Fibers[u].bar = b)
                       /\ \A u \in Slots : Fibers[u].issued <= Fibers[s].issued
                  ELSE m_abarSyncFibers'[b] = m_abarSyncFibers[b] - 1]_vars

\* C16 witness: of three fibers one has not yet left the wait() of
\* barrier 0 while the two others have arrived at barrier 1, armed by the
\* first of them.
C16_Witness ==
    /\ NumLanes = 3
    /\ m_abarSyncFibers[0] = 0
    /\ m_abarSyncFibers[1] = 1
    /\ \E s \in Slots : Fibers[s].syn = "woken" /\ Fibers[s].bar = 0

\* C17: once a kernel has thrown, operator() has not returned and does not
\* return, the block index stays, no fiber is created and no fiber enters
\* the kernel any more.
C17_ErrorNotRecovered ==
    /\ [](raised => execPc # "done")
    /\ [][raised' =>
            /\ execPc' # "done"
            /\ raised => m_v3uiGridBlockIdx' = m_v3uiGridBlockIdx
            /\ raised => Fibers' = Fibers
            /\ raised => bodyRuns' = bodyRuns]_vars
    /\ [](raised => ~ENABLED Next)

\* C17 witness: a kernel has thrown in the second of three fibers of a
\* first block, the first fiber having returned from the kernel, with a
\* further block to go.
C17_Witness ==
    /\ raised
    /\ NumLanes = 3
    /\ NumBlocks >= 2
    /\ m_v3uiGridBlockIdx = Zero3
    /\ Fibers[1].pc = "sync2"
    /\ Fibers[2].pc = "body"

\* C18: the first block is (0,0,0), every further block is the next
\* coordinate of the grid in row-major order (x fastest, z slowest), and
\* operator() returns after the last one; within a block the s-th fiber
\* created has the s-th coordinate of the block extent in the same order,
\* and the joins begin when all of them are created.
C18_RowMajorOrder ==
    /\ [](\A s \in Slots :
            /\ Fibers[s].made \in Coords(workSize.block)
            /\ Flatten(Fibers[s].made, workSize.block) = s - 1)
    /\ [](execPc = "join" => Len(Fibers) = NumLanes)
    /\ [](execPc \in {"spawn", "join"} =>
            m_v3uiGridBlockIdx \in Coords(workSize.grid))
    /\ [](execPc = "done" =>
            Flatten(m_v3uiGridBlockIdx, workSize.grid) = NumBlocks - 1)
    /\ [][m_v3uiGridBlockIdx' # m_v3uiGridBlockIdx =>
            IF Callable
            THEN m_v3uiGridBlockIdx' = Zero3
            ELSE Flatten(m_v3uiGridBlockIdx', workSize.grid)
                     = Flatten(m_v3uiGridBlockIdx, workSize.grid) + 1]_vars
    /\ [][(Callable /\ execPc' = "spawn") =>
            m_v3uiGridBlockIdx' = Zero3]_vars

\* C18 witness: a 2x2x1 grid of 2x2x1 blocks has been run to the end.
C18_Witness ==
    /\ execPc = "done"
    /\ workSize = [grid |-> <<2, 2, 1>>, block |-> <<2, 2, 1>>]
    /\ DOMAIN bodyRuns = AllKeys

\* A buffer is appended to m_vvuiSharedMem in this step.
Appends == Len(m_vvuiSharedMem') = Len(m_vvuiSharedMem) + 1

\* Fiber u is inside its k-th allocBlockSharedMem, the barrier of the
\* first syncBlockKernels of the call has released it, and it has not come
\* back from the second.
InsideAlloc(u, k) ==
    /\ InBody(Fibers[u])
    /\ Op(Fibers[u]) = "alloc"
    /\ AllocsDone(Fibers[u]) = k - 1
    /\ \/ Fibers[u].ap \in {1, 2}
       \/ Fibers[u].ap = 0 /\ Fibers[u].syn = "woken"

\* C19: the k-th buffer of a block is appended when every fiber of the
\* block is inside its k-th allocBlockSharedMem, released by the first
\* syncBlockKernels of that call and not back from the second, and has
\* got the addresses of all k-1 earlier calls; the k-th call of every
\* fiber returns the k-th buffer, so it returns after the append.
C19_AppendOrdered ==
    /\ [][Appends =>
            /\ Len(Fibers) = NumLanes
            /\ \A u \in Slots :
                  /\ InsideAlloc(u, Len(m_vvuiSharedMem'))
                  /\ Len(Fibers[u].rets) = Len(m_vvuiSharedMem)]_vars
    /\ [](\A s \in Slots :
            /\ Len(Fibers[s].rets) <= Len(m_vvuiSharedMem)
            /\ \A k \in 1..Len(Fibers[s].rets) : Fibers[s].rets[k] = k)

\* C19 witness: the fiber (0,0,0) was the last to arrive at the first
\* syncBlockKernels of the second call and has appended the second buffer
\* while another fiber, notified, has not yet run.
C19_Witness ==
    /\ Len(m_vvuiSharedMem) = 2
    /\ \E s, u \in Slots :
          /\ Fibers[s].made = Zero3
          /\ AllocsDone(Fibers[s]) = 1
          /\ Fibers[s].ap = 2
          /\ AllocsDone(Fibers[u]) = 1
          /\ Fibers[u].ap = 0
          /\ Fibers[u].syn = "woken"

\* The fibers that pass the test of allocBlockSharedMem for the master.
Masters == {s \in Slots : IsMaster(Fibers[s].id)}

\* The number of buffers the block has after the calls fiber f has gone
\* through: one per completed call, and one for the call in progress once
\* the fiber (0,0,0) is past the append.
Expected(f) ==
    AllocsDone(f) +
        (IF InBody(f) /\ Op(f) = "alloc" /\ f.ap >= 2 THEN 1 ELSE 0)

\* C20: from the moment a fiber enters the kernel, the one fiber that
\* passes the test for the master is the fiber created with (0,0,0); only
\* that fiber appends to m_vvuiSharedMem, one buffer per call; the number
\* of buffers is the number of calls that fiber has appended in, and it is
\* the number of calls of every fiber that has completed the kernel.
C20_OneCoordinator ==
    /\ [](BodyBegun =>
            /\ Cardinality(Masters) = 1
            /\ \A s \in Masters : Fibers[s].made = Zero3)
    /\ [](\A s \in Slots :
            /\ Fibers[s].made = Zero3 =>
                  Len(m_vvuiSharedMem) = Expected(Fibers[s])
            /\ BodyDone(s) => Len(m_vvuiSharedMem) = AllocsDone(Fibers[s]))
    /\ [][Len(m_vvuiSharedMem') > Len(m_vvuiSharedMem) =>
            /\ Appends
            /\ \E s \in Slots :
                  /\ Fibers[s].made = Zero3
                  /\ Fibers'[s].ap = Fibers[s].ap + 1
                  /\ \A u \in Slots \ {s} : Fibers'[u] = Fibers[u]]_vars

\* C20 witness: in a later block three fibers have completed a kernel
\* with two allocations, the one created with (0,0,0) being ahead of the
\* next in the syncBlockKernels calls it has returned from.
C20_Witness ==
    /\ m_v3uiGridBlockIdx # Zero3
    /\ kernel = KAlloc
    /\ NumLanes = 3
    /\ Len(m_vvuiSharedMem) = 2
    /\ \A s \in Slots : BodyDone(s)
    /\ m_mFibersToBarrier[Fibers[1].id] > m_mFibersToBarrier[Fibers[2].id]

\* The fibers blocked in the condition variable of barrier b.
BlockedAt(b) ==
    {u \in Slots : Fibers[u].syn = "wait" /\ Fibers[u].bar = b}

\* The fibers that return from syncBlockKernels in this step.
Returns ==
    {s \in Slots \cap DOMAIN Fibers' :
        Fibers'[s].returned = Fibers[s].returned + 1}

\* C21: the fiber whose decrement in wait() brings the count of a barrier
\* to 0 makes every fiber blocked on that barrier ready, returns in the
\* same step and keeps the thread; a fiber whose decrement leaves the
\* count above 0 blocks and gives up the thread; no fiber returns from
\* syncBlockKernels while the count of its barrier is not 0.
C21_LastArrivalWakes ==
    /\ [][\A b \in 0..1 : \A s \in Arrivals(b) :
            IF m_abarSyncFibers'[b] = 0
            THEN /\ s \in Returns
                 /\ Fibers'[s].syn = "no"
                 /\ running' = FiberTask(s)
                 /\ \A u \in BlockedAt(b) : Fibers'[u].syn = "woken"
            ELSE /\ s \notin Returns
                 /\ Fibers'[s].syn = "wait"
                 /\ running' # FiberTask(s)]_vars
    /\ [][\A s \in Returns :
            /\ m_abarSyncFibers'[Fibers'[s].bar] = 0
            /\ s \in Arrivals(Fibers'[s].bar) \/ Fibers[s].syn = "woken"]_vars
    /\ [](\A s \in Slots :
            Fibers[s].syn = "wait" =>
                m_abarSyncFibers[Fibers[s].bar] # 0 /\ running # FiberTask(s))

\* C21 witness: the last of three fibers to arrive at the barrier has
\* returned into the kernel and runs, the two others are ready and have
\* not yet run.
C21_Witness ==
    /\ NumLanes = 3
    /\ \E s \in Slots :
          /\ running = FiberTask(s)
          /\ Fibers[s].pc = "body"
          /\ Fibers[s].returned = 1
          /\ \A u \in Slots \ {s} :
                Fibers[u].syn = "woken" /\ Fibers[u].returned = 0

\* The kernel returns in every fiber: it does not throw.
BodyReturns == \A i \in 1..Len(kernel.prog) : kernel.prog[i] # "throw"

\* operator() has accepted the block size and runs a kernel that returns
\* and makes the same syncBlockKernels and allocBlockSharedMem calls in
\* every fiber.
WellFormedRun ==
    /\ execPc = "spawn"
    /\ EvenSyncs
    /\ BodyReturns

\* C22: a run of a kernel that returns and makes the same calls in every
\* fiber leads to the return of operator(); by then every fiber of every
\* block has entered the kernel, and a block is left only with every
\* fiber back from the syncBlockKernels before and after the kernel
\* (stated as the claim; a kernel that stores into the memory
\* allocBlockSharedMem returned stores beyond the end of an empty buffer,
\* which can end the program).
C22_Terminates ==
    /\ WellFormedRun ~> (execPc = "done")
    /\ [](execPc = "done" => DOMAIN bodyRuns = AllKeys)
    /\ [][(Fibers # << >> /\ Fibers' = << >>) =>
            \A s \in Slots :
                Fibers[s].pc = "terminated" /\ Fibers[s].returned >= 2]_vars

\* The fibers that have stored their barrier counter.
Phased == {s \in Slots : HasBarrierEntry(Fibers[s].id)}

\* The barrier counter of fiber s.
Phase(s) == m_mFibersToBarrier[Fibers[s].id]

\* C23: the barrier counter of every fiber is the number of
\* syncBlockKernels calls the fiber has returned from in the block, and the
\* counters of two fibers of the block differ by at most 1.
C23_PhaseCounters ==
    /\ \A s \in Phased : Phase(s) = Fibers[s].returned
    /\ \A s, u \in Phased : Phase(s) - Phase(u) <= 1
    /\ \A s \in Slots : Fibers[s].pc # "start" => s \in Phased

\* C23 witness: with the kernel of two calls, one fiber has returned from
\* its third syncBlockKernels while another is still inside it.
C23_Witness ==
    /\ kernel = KSync2
    /\ \E s, u \in Phased :
          /\ Phase(s) = 3
          /\ Phase(u) = 2
          /\ InWait(u)

\* Fiber s is at the test for the master of allocBlockSharedMem.
AtMasterTest(s) ==
    /\ InBody(Fibers[s])
    /\ Op(Fibers[s]) = "alloc"
    /\ AllocStep(Fibers[s]) = "append"

\* C24: m_idMasterFiber still holds a fiber id when a further block is
\* entered; whenever a fiber is at the test for the master,
\* m_idMasterFiber is the id of the fiber of the current block created
\* with (0,0,0), that fiber alone passes the test, and m_vvuiSharedMem has
\* one buffer per call that fiber has appended in.
C24_MasterNeverStale ==
    /\ NextBlockEntered => m_idMasterFiber # NoId
    /\ \A s \in Slots :
          AtMasterTest(s) =>
              /\ \E z \in Slots :
                    /\ Fibers[z].made = Zero3
                    /\ Fibers[z].id = m_idMasterFiber
              /\ IsMaster(Fibers[s].id) <=> Fibers[s].made = Zero3
              /\ \A z \in Slots :
                    Fibers[z].made = Zero3 =>
                        Len(m_vvuiSharedMem) = Expected(Fibers[z])

\* C24 witness: in the second block a fiber not created with (0,0,0) has
\* the id 1, which the master of the first block had, and is at the test
\* for the master.
C24_Witness ==
    /\ Flatten(m_v3uiGridBlockIdx, workSize.grid) = 1
    /\ \E s \in Slots :
          /\ Fibers[s].made # Zero3
          /\ Fibers[s].id = 1
          /\ AtMasterTest(s)

\* Fiber s is about to call syncBlockKernels and has a counter.
AboutToSync(s) ==
    /\ InBlock
    /\ AtSync(Fibers[s])
    /\ Fibers[s].syn = "no"
    /\ s \in Phased

\* C25: the count of both barriers is in 0 .. m_uiNumKernelsPerBlock, and
\* the count a fiber about to call syncBlockKernels enters wait() with is
\* at least 1, so that the decrement of wait() does not wrap.
C25_CountInRange ==
    /\ \A b \in 0..1 : m_abarSyncFibers[b] \in 0..m_uiNumKernelsPerBlock
    /\ \A s \in Slots :
          AboutToSync(s) =>
              ArmedBeforeWait(m_abarSyncFibers[BarrierIndex(Phase(s))],
                              m_uiNumKernelsPerBlock) >= 1

\* C25 witness: the only fiber of a block of one kernel has returned from
\* two syncBlockKernels calls, both barriers are back at 0 and it is about
\* to call a third time.
C25_Witness ==
    /\ NumLanes = 1
    /\ m_uiNumKernelsPerBlock = 1
    /\ \A b \in 0..1 : m_abarSyncFibers[b] = 0
    /\ \E s \in Slots : AboutToSync(s) /\ Fibers[s].returned = 2

\* The fibers that have entered their first syncBlockKernels call.
Entered == {s \in Slots : Fibers[s].issued >= 1}

\* No fiber present has returned from a syncBlockKernels call.
FirstRendezvous == \A s \in Slots : Fibers[s].returned = 0

\* C26: whenever no fiber is alive (none exists, or all have finished)
\* the count of both barriers is 0; and as long as no fiber of the block
\* has returned from its first syncBlockKernels call, barrier 1 is at 0
\* and barrier 0 is at 0 until the first fiber enters, and from then on
\* at the number of kernels per block of the running call less the
\* fibers that have entered.
C26_IdleWithoutFibers ==
    /\ (\A s \in Slots : ~Alive(s)) => \A b \in 0..1 : m_abarSyncFibers[b] = 0
    /\ FirstRendezvous =>
          /\ m_abarSyncFibers[1] = 0
          /\ m_abarSyncFibers[0] =
                 IF Entered = {} THEN 0 ELSE NumLanes - Cardinality(Entered)

\* C26 witness: in the second block of a grid whose blocks of several
\* fibers make three syncBlockKernels calls per fiber, the first fiber to
\* enter has armed barrier 0 to the number of kernels per block while the
\* fiber created first has not yet started.
C26_Witness ==
    /\ kernel = KSync1
    /\ NumLanes >= 2
    /\ Flatten(m_v3uiGridBlockIdx, workSize.grid) = 1
    /\ FirstRendezvous
    /\ Cardinality(Entered) = 1
    /\ m_abarSyncFibers[0] = NumLanes - 1
    /\ Fibers[1].pc = "start"

\* A call of operator() throws at the size check in this step.
CallFails == Callable /\ execPc' = "failed"

\* C27: a call that throws at the size check leaves
\* m_uiNumKernelsPerBlock, both tables, m_vvuiSharedMem,
\* m_vuiExternalSharedMem, m_v3uiGridBlockIdx and the counts of both
\* barriers as they were before the call.
C27_FailedCallKeepsState ==
    [][CallFails =>
          UNCHANGED <<m_uiNumKernelsPerBlock, m_mFibersToIndices,
                      m_mFibersToBarrier, m_vvuiSharedMem,
                      m_vuiExternalSharedMem, m_v3uiGridBlockIdx,
                      m_abarSyncFibers>>]_vars

\* C27 witness: a call with a block above the ceiling has thrown on an
\* executor that has run a grid of several blocks before;
\* m_uiNumKernelsPerBlock and m_v3uiGridBlockIdx are those of the earlier
\* call.
C27_Witness ==
    /\ execPc = "failed"
    /\ TooLarge(NumLanes)
    /\ m_uiNumKernelsPerBlock \in 2..MaxLanes
    /\ m_v3uiGridBlockIdx # Zero3

=============================================================================
